---- MODULE Spec2Model ----
(***************************************************************************)
(* L2 lattice reduction of lll-rs: src/src/l2/bigl2.rs (lattice_reduce and *)
(* size_reduce) over the BigVector primitives of src/src/vector.rs.        *)
(*                                                                         *)
(* Integers are rug::Integer (unbounded), rationals are rug::Rational      *)
(* (canonical fractions, modelled as pairs <<numerator, denominator>>),    *)
(* and the thresholds eta and delta are f64 values, modelled exactly on    *)
(* the values used here (see the F64 section).  Indices are 0-based, as in *)
(* the source.                                                             *)
(***************************************************************************)
EXTENDS Integers, Sequences, FiniteSets, TLC

(* ------------------------------ bounds -------------------------------- *)

\* Largest dimension d of an input basis (the bases are square, d rows in Z^d).
MaxDim == 3

\* Input rows have entries in -MaxEntry .. MaxEntry.
MaxEntry == 2

\* Integer combinations examined for short lattice vectors have
\* coefficients in -MaxCoef .. MaxCoef.
MaxCoef == 1

(* --------------------------- rug::Rational ---------------------------- *)

Abs(a) == IF a < 0 THEN -a ELSE a

RECURSIVE GCD(_, _)
GCD(a, b) == IF b = 0 THEN a ELSE GCD(b, a % b)

\* The canonical form rug keeps: positive denominator, lowest terms.
Canon(n, m) ==
  LET g == GCD(Abs(n), Abs(m))
      s == IF m < 0 THEN -1 ELSE 1
  IN  <<(s * n) \div g, (s * m) \div g>>

Zero == <<0, 1>>
FromInt(a) == <<a, 1>>
RAdd(p, q) == Canon(p[1] * q[2] + q[1] * p[2], p[2] * q[2])
RSub(p, q) == Canon(p[1] * q[2] - q[1] * p[2], p[2] * q[2])
RMul(p, q) == Canon(p[1] * q[1], p[2] * q[2])
\* Division; the caller has excluded q = 0 (rug panics on it).
RDiv(p, q) == Canon(p[1] * q[2], p[2] * q[1])
RSquare(p) == RMul(p, p)
RLt(p, q) == p[1] * q[2] < q[1] * p[2]
RLeq(p, q) == p[1] * q[2] <= q[1] * p[2]
RAbs(p) == <<Abs(p[1]), p[2]>>

\* fract_round with the quotient truncated toward zero instead of rounded.
fract_trunc(p) ==
  IF p[1] >= 0 THEN p[1] \div p[2] ELSE -((-p[1]) \div p[2])

\* Rational::fract_round: the integer nearest to p, ties away from zero.
fract_round(p) ==
  IF p[1] >= 0 THEN (2 * p[1] + p[2]) \div (2 * p[2])
  ELSE -((2 * (-p[1]) + p[2]) \div (2 * p[2]))

(* -------------------------------- f64 --------------------------------- *)
(* An f64 value is [n, d, c], standing for n/d + c * 2^-54 with n/d a      *)
(* dyadic rational of a few bits and c a small integer: exactly the f64    *)
(* values within a few ulps of such a dyadic.  The arithmetic below is     *)
(* IEEE-754 binary64 round-to-nearest, ties-to-even, for values in         *)
(* [1/4, 4), where the ulp is 1, 2, 4, 8 units of 2^-54.                   *)

F64(n, m, c) == [n |-> n, d |-> m, c |-> c]

F64Lt(a, b) ==
  IF a.n * b.d = b.n * a.d THEN a.c < b.c ELSE a.n * b.d < b.n * a.d

\* The nearest integer to the rational t (plus an infinitesimal of sign
\* sticky), ties to even.
RoundNearestEven(t, sticky) ==
  LET fl == t[1] \div t[2]
      twice == 2 * (t[1] - fl * t[2])
  IN  IF twice > t[2] THEN fl + 1
      ELSE IF twice < t[2] THEN fl
      ELSE IF sticky > 0 THEN fl + 1
      ELSE IF sticky < 0 THEN fl
      ELSE IF fl % 2 = 0 THEN fl ELSE fl + 1

\* The f64 nearest to q + (t + sticky * tiny) * 2^-54.
F64Round(q, t, sticky) ==
  LET sgn == IF t[1] # 0 THEN t[1] ELSE sticky
      below(p) == RLt(q, FromInt(p)) \/ (q = FromInt(p) /\ sgn < 0)
      grid == IF RLt(q, <<1, 2>>) \/ (q = <<1, 2>> /\ sgn < 0) THEN 1
              ELSE IF below(1) THEN 2
              ELSE IF below(2) THEN 4
              ELSE 8
      m == RoundNearestEven(<<t[1], t[2] * grid>>, sticky)
  IN  F64(q[1], q[2], m * grid)

F64Add(a, b) ==
  F64Round(RAdd(<<a.n, a.d>>, <<b.n, b.d>>), FromInt(a.c + b.c), 0)

F64Mul(a, b) ==
  F64Round(RMul(<<a.n, a.d>>, <<b.n, b.d>>),
           RAdd(RMul(<<a.n, a.d>>, FromInt(b.c)), RMul(<<b.n, b.d>>, FromInt(a.c))),
           a.c * b.c)

\* x / 2. is exact (an exponent decrement); every x halved here is in [1, 2],
\* where c is a multiple of 4.
F64Half(a) == LET q == Canon(a.n, 2 * a.d) IN F64(q[1], q[2], a.c \div 2)

\* Rational::from_f64 is exact; every value converted here has c = 0.
from_f64(a) == Canon(a.n, a.d)

(* ----------------------- BigVector primitives ------------------------- *)

\* f itself: TLC evaluates f @@ f to an explicit table, so that the entries
\* of f are computed once.
Tab(f) == f @@ f

RECURSIVE SumInt(_, _)
SumInt(f, m) == IF m < 0 THEN 0 ELSE f[m] + SumInt(f, m - 1)

RECURSIVE SumRat(_, _)
SumRat(f, m) == IF m < 0 THEN Zero ELSE RAdd(f[m], SumRat(f, m - 1))

dimension(u) == Cardinality(DOMAIN u)

dot(u, v) == SumInt([i \in DOMAIN u |-> u[i] * v[i]], dimension(u) - 1)

sub(u, v) == Tab([i \in DOMAIN u |-> u[i] - v[i]])

mulf(u, x) == Tab([i \in DOMAIN u |-> u[i] * x])

\* A swap that overwrites row i and loses it.
swap_overwrite(M, i, j) == [M EXCEPT ![i] = M[j]]

\* Matrix::swap: rows i and j exchanged.
swap(M, i, j) == [M EXCEPT ![i] = M[j], ![j] = M[i]]

\* Matrix::init(rows, cols): every entry the default value.
MatrixInit(dd, zero) == [i \in 0 .. dd - 1 |-> [j \in 0 .. dd - 1 |-> zero]]

(* ------------------------------ state --------------------------------- *)

VARIABLES
  input,       \* the basis as passed to the call in progress
  d,           \* its dimension
  eta, delta,  \* the f64 thresholds passed
  basis,       \* the caller's basis, reduced in place
  gram, r, mu, \* the locals of lattice_reduce
  eta_minus, delta_plus,
  k,
  pc,          \* "start", "size_reduce", "lovasz", "done", "panic"
  depth,       \* size_reduce frames nested in the one the main loop called
  changed,     \* a swap or a reduction sweep has run during this call
  run,         \* 1 for the first call, 2 for a call on its output
  first,       \* the basis the first call returned
  visited,     \* the program states in which this call has tested k < d
  revisited    \* the last test of k < d was in a state of visited

vars == <<input, d, eta, delta, basis, gram, r, mu, eta_minus, delta_plus,
          k, pc, depth, changed, run, first, visited, revisited>>

(* ------------------------------ inputs -------------------------------- *)

Entries == -MaxEntry .. MaxEntry

LowerCells(dd) == {c \in (0 .. dd - 1) \X (0 .. dd - 1) : c[2] <= c[1]}

\* The square integer bases in lower-triangular form: d rows of Z^d, row i
\* zero after column i.  Zero diagonal entries give linearly dependent rows.
Bases(dd) ==
  {[i \in 0 .. dd - 1 |-> [j \in 0 .. dd - 1 |-> IF j <= i THEN t[<<i, j>>] ELSE 0]] :
     t \in [LowerCells(dd) -> Entries]}

\* (eta, delta) pairs: three inside the documented intervals, with
\* (eta + 0.5) / 2 and (delta + 1) / 2 exact or rounded, one inside them whose
\* product eta * eta rounds up to delta, and the boundary and outside cases.
Thresholds ==
  { <<F64(9, 16, 0), F64(3, 4, 0)>>,
    <<F64(1, 2, 2),  F64(1, 2, 0)>>,
    <<F64(3, 4, 0),  F64(1, 1, -2)>>,
    <<F64(3, 4, -2), F64(9, 16, -2)>>,
    <<F64(1, 2, 0),  F64(3, 4, 0)>>,
    <<F64(9, 16, 0), F64(1, 4, 0)>>,
    <<F64(9, 16, 0), F64(1, 1, 0)>>,
    <<F64(3, 4, 0),  F64(9, 16, 0)>>,
    <<F64(1, 1, 0),  F64(3, 4, 0)>> }

Init ==
  /\ d \in 1 .. MaxDim
  /\ input \in Bases(d)
  /\ \E t \in Thresholds : eta = t[1] /\ delta = t[2]
  /\ basis = input
  /\ gram = MatrixInit(d, 0)
  /\ r = MatrixInit(d, Zero)
  /\ mu = MatrixInit(d, Zero)
  /\ eta_minus = Zero
  /\ delta_plus = Zero
  /\ k = 0
  /\ pc = "start"
  /\ depth = 0
  /\ changed = FALSE
  /\ run = 1
  /\ first = input
  /\ visited = {}
  /\ revisited = FALSE

(* ---------------------------- size_reduce ----------------------------- *)

\* A slot that ignores the lower-triangle convention.
gram_slot_by_row(row, j, kk) == <<row, j>>

\* Where <basis[row], basis[j]> is stored: the branch `if j < k` of both
\* Gram updates keeps the entry in the lower triangle.
gram_slot(row, j, kk) == IF j < kk THEN <<row, j>> ELSE <<j, row>>

store(g, slot, val) == [g EXCEPT ![slot[1]][slot[2]] = val]

\* update_row with mu computed below the diagonal only, so that r[row][row]
\* is never a divisor.
RECURSIVE update_row_offdiag(_, _, _, _, _)
update_row_offdiag(row, i, g, rr, m) ==
  IF i > row THEN [r |-> rr, mu |-> m, ok |-> TRUE]
  ELSE
    LET s  == SumRat([index \in 0 .. i - 1 |-> RMul(m[i][index], rr[row][index])], i - 1)
        r1 == [rr EXCEPT ![row][i] = RSub(FromInt(g[row][i]), s)]
    IN  IF i = row THEN [r |-> r1, mu |-> m, ok |-> TRUE]
        ELSE IF r1[i][i] = Zero THEN [r |-> r1, mu |-> m, ok |-> FALSE]
        ELSE update_row_offdiag(row, i + 1, g, r1,
                                [m EXCEPT ![row][i] = RDiv(r1[row][i], r1[i][i])])

\* "Update mu and r" for one row: iterations i .. row of the loop, in order.
\* ok = FALSE when r[i][i] = 0 is used as a divisor (the division panics).
RECURSIVE update_row(_, _, _, _, _)
update_row(row, i, g, rr, m) ==
  IF i > row THEN [r |-> rr, mu |-> m, ok |-> TRUE]
  ELSE
    LET s  == SumRat([index \in 0 .. i - 1 |-> RMul(m[i][index], rr[row][index])], i - 1)
        r1 == [rr EXCEPT ![row][i] = RSub(FromInt(g[row][i]), s)]
    IN  IF r1[i][i] = Zero THEN [r |-> r1, mu |-> m, ok |-> FALSE]
        ELSE update_row(row, i + 1, g, r1,
                        [m EXCEPT ![row][i] = RDiv(r1[row][i], r1[i][i])])

\* The test that starts a reduction sweep.
needs_reduction(kk, m, e) == \E index \in 0 .. kk - 1 : RLt(e, m[kk][index])

\* "Updating Gram matrix" after basis[kk] changed: iterations j .. d-1.
RECURSIVE gram_update(_, _, _, _)
gram_update(kk, j, b, g) ==
  IF j >= dimension(b) THEN g
  ELSE gram_update(kk, j + 1, b, store(g, gram_slot(kk, j, kk), dot(b[kk], b[j])))

\* The reduction sweep: iterations i, i-1, .., 0 of `for i in (0..k).rev()`.
RECURSIVE sweep(_, _, _, _, _)
sweep(kk, i, b, g, m) ==
  IF i < 0 THEN [basis |-> b, gram |-> g, mu |-> m]
  ELSE
    LET x  == fract_round(m[kk][i])
        b1 == [b EXCEPT ![kk] = sub(b[kk], mulf(b[i], x))]
        g1 == gram_update(kk, 0, b1, g)
        m1 == [m EXCEPT ![kk] =
                 Tab([j \in DOMAIN m[kk] |->
                        IF j < i THEN RSub(m[kk][j], RMul(FromInt(x), m[i][j]))
                        ELSE m[kk][j]])]
    IN  sweep(kk, i - 1, b1, g1, m1)

(* --------------------------- lattice_reduce --------------------------- *)

\* The two assertions that open lattice_reduce.
preconditions(e, dl) ==
  /\ F64Lt(F64(1, 4, 0), dl) /\ F64Lt(dl, F64(1, 1, 0))
  /\ F64Lt(F64(1, 2, 0), e) /\ F64Lt(F64Mul(e, e), dl)

\* "Computing Gram matrix": the lower triangle, the rest left zero.
gram_init(b) ==
  Tab([i \in DOMAIN b |-> Tab([j \in DOMAIN b |-> IF j <= i THEN dot(b[i], b[j]) ELSE 0])])

\* The Gram update after a swap with row kk-1 forgotten.
RECURSIVE gram_swap_update_one_row(_, _, _, _)
gram_swap_update_one_row(kk, j, b, g) ==
  IF j >= dimension(b) THEN g
  ELSE gram_swap_update_one_row(kk, j + 1, b,
                                [g EXCEPT ![IF j < kk THEN kk ELSE j][IF j < kk THEN j ELSE kk] =
                                   dot(b[kk], b[j])])

\* "Updating Gram matrix" after the swap of rows kk and kk-1: iterations j .. d-1.
RECURSIVE gram_swap_update(_, _, _, _)
gram_swap_update(kk, j, b, g) ==
  IF j >= dimension(b) THEN g
  ELSE
    LET g1 == store(g, gram_slot(kk, j, kk), dot(b[kk], b[j]))
        g2 == store(g1, gram_slot(kk - 1, j, kk), dot(b[kk - 1], b[j]))
    IN  gram_swap_update(kk, j + 1, b, g2)

\* "Updating mu and r" after the swap: rows i .. kk, each over columns 0 .. i.
RECURSIVE update_rows(_, _, _, _, _)
update_rows(kk, i, g, rr, m) ==
  IF i > kk THEN [r |-> rr, mu |-> m, ok |-> TRUE]
  ELSE LET u == update_row(i, 0, g, rr, m)
       IN  IF u.ok THEN update_rows(kk, i + 1, g, u.r, u.mu) ELSE u

\* The Lovasz test with the factor mu[k][k-1]^2 left out of the right-hand side.
lovasz_unscaled(kk, rr, m, dp) ==
  LET delta_criterion  == RMul(dp, rr[kk - 1][kk - 1])
      scalar_criterion == RAdd(rr[kk][kk], rr[kk - 1][kk - 1])
  IN  RLt(delta_criterion, scalar_criterion)

\* The Lovasz condition as the loop tests it.
lovasz(kk, rr, m, dp) ==
  LET delta_criterion  == RMul(dp, rr[kk - 1][kk - 1])
      scalar_criterion == RAdd(rr[kk][kk], RMul(RSquare(m[kk][kk - 1]), rr[kk - 1][kk - 1]))
  IN  RLt(delta_criterion, scalar_criterion)

max(a, b) == IF a >= b THEN a ELSE b

(* ------------------------------ actions ------------------------------- *)

\* The call: the assertions, the Gram matrix, the relaxed thresholds,
\* r[0][0], k = 1 and the first test of the loop.
Enter ==
  /\ pc = "start"
  /\ IF preconditions(eta, delta)
     THEN /\ gram' = gram_init(basis)
          /\ eta_minus' = from_f64(F64Half(F64Add(eta, F64(1, 2, 0))))
          /\ delta_plus' = from_f64(F64Half(F64Add(delta, F64(1, 1, 0))))
          /\ r' = [r EXCEPT ![0][0] = FromInt(gram_init(basis)[0][0])]
          /\ k' = 1
          /\ pc' = IF 1 < d THEN "size_reduce" ELSE "done"
          /\ visited' = {<<basis, gram', r', mu, k'>>}
     ELSE /\ pc' = "panic"
          /\ UNCHANGED <<gram, eta_minus, delta_plus, r, k, visited>>
  /\ UNCHANGED <<input, d, eta, delta, basis, mu, depth, changed, run, first, revisited>>

\* One frame of size_reduce(k, ..): the refresh of row k, then either the
\* return to the main loop or the sweep and the recursive call.
SizeReduce ==
  /\ pc = "size_reduce"
  /\ LET u == update_row(k, 0, gram, r, mu)
     IN  IF ~u.ok
         THEN /\ pc' = "panic"
              /\ r' = u.r /\ mu' = u.mu
              /\ UNCHANGED <<basis, gram, depth, changed>>
         ELSE IF needs_reduction(k, u.mu, eta_minus)
         THEN LET w == sweep(k, k - 1, basis, gram, u.mu)
              IN  /\ basis' = w.basis /\ gram' = w.gram /\ mu' = w.mu
                  /\ r' = u.r
                  /\ depth' = depth + 1
                  /\ changed' = TRUE
                  /\ pc' = "size_reduce"
         ELSE /\ r' = u.r /\ mu' = u.mu
              /\ pc' = "lovasz"
              /\ UNCHANGED <<basis, gram, depth, changed>>
  /\ UNCHANGED <<input, d, eta, delta, eta_minus, delta_plus, k, run, first,
                 visited, revisited>>

\* The rest of the loop body after size_reduce returned: the Lovasz test,
\* k + 1 or the swap with its refresh, and the next test of the loop.
Lovasz ==
  /\ pc = "lovasz"
  /\ IF lovasz(k, r, mu, delta_plus)
     THEN /\ k' = k + 1
          /\ pc' = IF k + 1 < d THEN "size_reduce" ELSE "done"
          /\ UNCHANGED <<basis, gram, r, mu, changed>>
     ELSE LET b1 == swap(basis, k, k - 1)
              g1 == gram_swap_update(k, 0, b1, gram)
              u  == update_rows(k, 0, g1, r, mu)
          IN  /\ basis' = b1 /\ gram' = g1 /\ r' = u.r /\ mu' = u.mu
              /\ changed' = TRUE
              /\ k' = IF u.ok THEN max(1, k - 1) ELSE k
              /\ pc' = IF u.ok THEN "size_reduce" ELSE "panic"
  /\ depth' = 0
  /\ visited' = visited \cup {<<basis', gram', r', mu', k'>>}
  /\ revisited' = (<<basis', gram', r', mu', k'>> \in visited)
  /\ UNCHANGED <<input, d, eta, delta, eta_minus, delta_plus, run, first>>

\* The caller passes the returned basis to lattice_reduce again, with the
\* same eta and delta.
Rerun ==
  /\ pc = "done" /\ run = 1
  /\ run' = 2
  /\ first' = basis
  /\ input' = basis
  /\ gram' = MatrixInit(d, 0)
  /\ r' = MatrixInit(d, Zero)
  /\ mu' = MatrixInit(d, Zero)
  /\ eta_minus' = Zero /\ delta_plus' = Zero
  /\ k' = 0 /\ depth' = 0 /\ changed' = FALSE
  /\ visited' = {} /\ revisited' = FALSE
  /\ pc' = "start"
  /\ UNCHANGED <<d, eta, delta, basis>>

Next == Enter \/ SizeReduce \/ Lovasz

Spec == Init /\ [][Next]_vars

NextTwice == Next \/ Rerun

SpecTwice == Init /\ [][NextTwice]_vars

(* ------------------- reference notions for the claims ----------------- *)

\* The thresholds in exact (real) arithmetic.
Q(a) == Canon(a.n, a.d)
\* p <= a, a * p <= q (p > 0) and a^2 < b, for f64 values a, b.
RLeqF64(p, a) == RLt(p, Q(a)) \/ (p = Q(a) /\ a.c >= 0)
F64TimesLeq(a, p, q) == RLt(RMul(Q(a), p), q) \/ (RMul(Q(a), p) = q /\ a.c <= 0)
ExactSquareLt(a, b) ==
  IF RSquare(Q(a)) = Q(b) THEN RLt(RMul(FromInt(2 * a.c), Q(a)), FromInt(b.c))
  ELSE RLt(RSquare(Q(a)), Q(b))

\* delta in (1/4, 1) and eta in (1/2, sqrt(delta)), as real numbers.
InsideIntervals ==
  /\ F64Lt(F64(1, 4, 0), delta) /\ F64Lt(delta, F64(1, 1, 0))
  /\ F64Lt(F64(1, 2, 0), eta) /\ ExactSquareLt(eta, delta)

\* Determinant by expansion along the first row.
Minor(M, a, b) ==
  Tab([i \in 0 .. dimension(M) - 2 |->
         Tab([j \in 0 .. dimension(M) - 2 |->
                M[IF i < a THEN i ELSE i + 1][IF j < b THEN j ELSE j + 1]])])

RECURSIVE Det(_)
Det(M) ==
  IF dimension(M) = 0 THEN 1
  ELSE SumInt([j \in 0 .. dimension(M) - 1 |->
                 (IF j % 2 = 0 THEN 1 ELSE -1) * M[0][j] * Det(Minor(M, 0, j))],
              dimension(M) - 1)

Adjugate(M) ==
  Tab([i \in DOMAIN M |->
         Tab([j \in DOMAIN M |-> (IF (i + j) % 2 = 0 THEN 1 ELSE -1) * Det(Minor(M, j, i))])])

MatMul(A, B) ==
  Tab([i \in DOMAIN A |->
         Tab([j \in DOMAIN A |-> SumInt([t \in DOMAIN A |-> A[i][t] * B[t][j]], dimension(A) - 1)])])

Independent(M) == Det(M) # 0

\* Gram-Schmidt orthogonalisation by its definition, over the rationals:
\* b*_i = b_i - sum_{j<i} mu_ij b*_j with mu_ij = <b_i, b*_j> / <b*_j, b*_j>.
RatDot(u, v) == SumRat([t \in DOMAIN u |-> RMul(u[t], v[t])], dimension(u) - 1)
RatRow(u) == Tab([t \in DOMAIN u |-> FromInt(u[t])])
Coef(u, w) == IF RatDot(w, w) = Zero THEN Zero ELSE RDiv(RatDot(u, w), RatDot(w, w))

RECURSIVE Ortho(_, _)
Ortho(b, i) ==
  IF i < 0 THEN [j \in {} |-> Zero]
  ELSE LET prev == Ortho(b, i - 1)
           bi   == RatRow(b[i])
           coef == Tab([j \in 0 .. i - 1 |-> Coef(bi, prev[j])])
           star == Tab([t \in DOMAIN bi |->
                          RSub(bi[t],
                               SumRat([j \in 0 .. i - 1 |-> RMul(coef[j], prev[j][t])],
                                      i - 1))])
       IN  Tab([j \in 0 .. i |-> IF j < i THEN prev[j] ELSE star])

\* (eta, delta)-conditions of a basis b with orthogonalisation o.
GSmu(b, o, i, j) == Coef(RatRow(b[i]), o[j])
GSnorm(o, i) == RatDot(o[i], o[i])

SizeReduced(b, e) ==
  LET o == Ortho(b, dimension(b) - 1)
  IN  \A i \in DOMAIN b : \A j \in 0 .. i - 1 : RLeqF64(RAbs(GSmu(b, o, i, j)), e)

LovaszReduced(b, dl) ==
  LET o == Ortho(b, dimension(b) - 1)
  IN  \A i \in 1 .. dimension(b) - 1 :
        F64TimesLeq(dl, GSnorm(o, i - 1),
                    RAdd(GSnorm(o, i), RMul(RSquare(GSmu(b, o, i, i - 1)), GSnorm(o, i - 1))))

(* ------------------------------- claims ------------------------------- *)

\* C1: when lattice_reduce returns, |mu[i][j]| <= eta for every j < i < d,
\* mu being the Gram-Schmidt coefficients of the returned basis.
C1_SizeReducedOnReturn == pc = "done" => SizeReduced(basis, eta)

\* C2: when lattice_reduce returns, the returned basis satisfies
\* delta * r[i-1][i-1] <= r[i][i] + mu[i][i-1]^2 * r[i-1][i-1] for 1 <= i < d.
C2_LovaszOnReturn == pc = "done" => LovaszReduced(basis, delta)

\* A returned basis of dimension 3 or more whose input broke the condition.
C2_Witness ==
  /\ pc = "done" /\ d >= 3
  /\ ~LovaszReduced(input, delta) /\ LovaszReduced(basis, delta)

\* C3: in every state, basis = U * input for an integer matrix U of
\* determinant 1 or -1 (U = basis * adj(input) / det(input), for independent
\* input rows): the entries of basis * adj(input) are multiples of det(input)
\* and |det(basis)| = |det(input)|.  (While basis = input, U is the identity.)
C3_LatticePreserved ==
  (basis # input /\ Independent(input)) =>
    LET dt == Abs(Det(input))
        P  == MatMul(basis, Adjugate(input))
    IN  /\ \A i \in DOMAIN P : \A j \in DOMAIN P : P[i][j] % dt = 0
        /\ Abs(Det(basis)) = dt

\* A returned basis of dimension 3 or more with a row that is no input row.
C3_Witness ==
  /\ pc = "done" /\ d >= 3 /\ changed /\ Independent(input)
  /\ \E i \in DOMAIN basis : \A j \in DOMAIN input : basis[i] # input[j]

RECURSIVE RPow(_, _)
RPow(p, n) == IF n = 0 THEN FromInt(1) ELSE RMul(p, RPow(p, n - 1))

Combination(c, b) ==
  Tab([t \in DOMAIN b[0] |-> SumInt([i \in DOMAIN b |-> c[i] * b[i][t]], dimension(b) - 1)])

\* C4: when lattice_reduce returns, the first row b0 of the basis satisfies
\* |b0|^2 * (4 delta - 1)^(d-1) <= 4^(d-1) * |v|^2 for every nonzero integer
\* combination v of the input rows.
C4_ShortFirstVector ==
  pc = "done" =>
    \A c \in [DOMAIN input -> -MaxCoef .. MaxCoef] :
      LET v   == Combination(c, input)
          lhs == RMul(FromInt(dot(basis[0], basis[0])),
                      RPow(RSub(RMul(FromInt(4), Q(delta)), FromInt(1)), d - 1))
          rhs == RMul(FromInt(dot(v, v)), RPow(FromInt(4), d - 1))
      IN  dot(v, v) # 0 =>
            \/ RLt(lhs, rhs)
            \/ lhs = rhs /\ (d = 1 \/ delta.c <= 0)

\* C5: a call on independent rows with thresholds inside the intervals
\* returns.  lattice_reduce is deterministic, so it returns only if it does
\* not abort and its loop never tests k < d in a program state (basis, gram,
\* r, mu, k) in which it has tested it before.
C5_Terminates ==
  (InsideIntervals /\ preconditions(eta, delta) /\ Independent(input)) =>
    (pc # "panic" /\ ~revisited)

\* C6: a call on linearly dependent rows never returns normally (d >= 1).
C6_DependentRejected == ~Independent(input) => pc # "done"

\* C6 as amended: a call on d >= 2 linearly dependent rows never returns
\* normally.
C6_DependentRejectedFromTwoRows ==
  (d >= 2 /\ ~Independent(input)) => pc # "done"

\* Dependent rows of dimension 3 or more, found when row 2 is refreshed.
C6_Witness ==
  /\ pc = "panic" /\ d >= 3 /\ k = 2 /\ ~Independent(input)
  /\ preconditions(eta, delta)

\* C7: outside the intervals delta in (1/4, 1), eta in (1/2, sqrt(delta)) the
\* call aborts at the assertions, before the basis or any local is touched;
\* inside them the assertions do not abort.  (k = 0 distinguishes the abort
\* at the assertions from a later one.)
C7_ThresholdPreconditions ==
  pc # "start" =>
    IF InsideIntervals THEN ~(pc = "panic" /\ k = 0)
    ELSE pc = "panic" /\ k = 0 /\ basis = input /\ gram = MatrixInit(d, 0)

\* C8: a second call on the returned basis, with the same thresholds, runs no
\* swap and no reduction sweep and leaves the basis as the first call
\* returned it.
C8_Idempotent == run = 2 => (basis = first /\ ~changed /\ pc # "panic")

\* A second call that returned a basis of dimension 3 or more which is not
\* size-reduced.
C8_Witness ==
  /\ run = 2 /\ pc = "done" /\ d >= 3 /\ basis = first
  /\ ~SizeReduced(first, eta)

\* C9: at every test of the loop and at every start of size_reduce's refresh,
\* gram[i][j] = <basis[i], basis[j]> for 0 <= j <= i < d.
C9_GramConsistent ==
  pc \in {"size_reduce", "lovasz", "done"} =>
    \A i \in 0 .. d - 1 : \A j \in 0 .. i : gram[i][j] = dot(basis[i], basis[j])

\* size_reduce(1, ..) starts with row 2 as passed in and its product with
\* row 0 changed.
C9_Witness ==
  /\ pc = "size_reduce" /\ d >= 3 /\ k = 1
  /\ basis[2] = input[2]
  /\ gram[2][0] # dot(input[2], input[0])

\* C10: the call nested in a size_reduce call of the main loop runs no sweep
\* and no further call, and its refresh leaves |mu[k][j]| <= 1/2 for j < k.
C10_OneNestedCall ==
  /\ depth <= 1
  /\ (depth = 1 /\ pc = "lovasz") =>
       \A j \in 0 .. k - 1 : RLeq(RAbs(mu[k][j]), <<1, 2>>)

\* A nested call returned for row 2, with a nonzero mu left.
C10_Witness ==
  /\ depth = 1 /\ pc = "lovasz" /\ k = 2
  /\ mu[2][0] # Zero /\ mu[2][1] # Zero

====
